---- MODULE Spec2Model ----
(***************************************************************************)
(* McCabe-Thiele diagram script (src/main.py): minimum-reflux lookup,      *)
(* operating lines, the stage-stepping loop, the max-iterations warning    *)
(* and the printed summary, together with binary_search_interpolate as a   *)
(* stand-alone function over arbitrary tables.                             *)
(*                                                                         *)
(* Mole fractions and ratios are Python floats in the source.  They are    *)
(* represented here in fixed point: the integer n stands for n / Scale,    *)
(* every multiplication and division rounds toward minus infinity, and     *)
(* the unit of the representation is the script's tolerance (1e-4).        *)
(***************************************************************************)
EXTENDS Integers, Sequences, FiniteSets, TLC

VARIABLES xF, xD, xW, R_multiplier, q, max_iterations,
          x_eq, y_eq,
          pc, env, stages, current_x, iteration_count, exit_by,
          warned, summary,
          y_target, low, high, bsteps, result

vars == <<xF, xD, xW, R_multiplier, q, max_iterations, x_eq, y_eq,
          pc, env, stages, current_x, iteration_count, exit_by,
          warned, summary, y_target, low, high, bsteps, result>>

config == <<xF, xD, xW, R_multiplier, q, max_iterations, x_eq, y_eq>>

bsvars == <<y_target, low, high, bsteps, result>>

(***************************************************************************)
(* Fixed-point arithmetic.                                                 *)
(***************************************************************************)
Scale == 10000

tolerance == 1

FloorDiv(a, b) == IF b > 0 THEN a \div b ELSE (0 - a) \div (0 - b)

FDiv(a, b) == FloorDiv(a * Scale, b)

FMul(a, b) == FloorDiv(a * b, Scale)

Abs(a) == IF a < 0 THEN 0 - a ELSE a

(***************************************************************************)
(* Constants of the script (lines 7-11, 18-28, 115).                       *)
(***************************************************************************)
DefaultXF == 4000

DefaultXD == 9800

DefaultXW == 200

DefaultRMultiplier == 15000

DefaultQ == 10000

DefaultMaxIterations == 1000

equilibrium_x == <<1000, 2000, 3000, 4000, 5000, 6000, 7000, 8000, 9000>>

equilibrium_y == <<2200, 3900, 5200, 6300, 7200, 8000, 8600, 9200, 9600>>

(***************************************************************************)
(* Bounds of the model.                                                    *)
(***************************************************************************)
MaxSmallCap == 10

MaxLen == 3

MaxVal == 4

(***************************************************************************)
(* Configurations explored besides the default one.  Init keeps the ones   *)
(* with xW < xF < xD; both multipliers exceed 1.                           *)
(***************************************************************************)
XFSet == {DefaultXF, 2200, 3000, 9600}

XDSet == {DefaultXD, 3000, 5000, 9000}

XWSet == {DefaultXW, 1000}

RMultiplierSet == {DefaultRMultiplier, 12000}

QSet == {DefaultQ, 5000}

MaxIterationsSet == (1 .. MaxSmallCap) \cup {DefaultMaxIterations}

(***************************************************************************)
(* find_intersection: first table point, in table order, with y > xF;      *)
(* falls off the end of the for loop (returns None) when there is none.    *)
(***************************************************************************)
None == <<>>

RECURSIVE find_intersection_from(_, _, _, _)
find_intersection_from(i, xs, ys, f) ==
    IF i > Len(xs) THEN None
    ELSE IF ys[i] > f THEN <<xs[i], ys[i]>>
    ELSE find_intersection_from(i + 1, xs, ys, f)

\* Variant: the last table point instead of None when no point has y > xF.
find_intersection_LastPoint(xs, ys, f, d) ==
    LET p == find_intersection_from(1, xs, ys, f) IN
    IF p = None THEN <<xs[Len(xs)], ys[Len(ys)]>> ELSE p

find_intersection(xs, ys, f, d) == find_intersection_from(1, xs, ys, f)

(***************************************************************************)
(* Reflux ratios and operating lines.                                      *)
(***************************************************************************)
MinimumReflux(d, p) == FDiv(d - p[2], p[2] - p[1])

OperatingReflux(m, rmin) == FMul(m, rmin)

RectifyingSlope(R) == FDiv(R, R + Scale)

RectifyingIntercept(d, R) == FDiv(d, R + Scale)

FeedIntersectionX(f, d, qq, R) ==
    IF qq # Scale
    THEN FDiv(FDiv(f, qq - Scale) + FDiv(d, R + Scale),
              FDiv(qq, qq - Scale) - FDiv(R, R + Scale))
    ELSE f

FeedIntersectionY(d, R, xi) == FMul(FDiv(R, R + Scale), xi) + FDiv(d, R + Scale)

StrippingSlope(w, xi, yi) == FDiv(yi - w, xi - w)

\* No division of lines 59-84 has a zero divisor.
LinesDefined(f, d, w, m, qq) ==
    LET p == find_intersection(equilibrium_x, equilibrium_y, f, d) IN
    IF p = None THEN TRUE
    ELSE IF p[2] = p[1] THEN FALSE
    ELSE LET R == OperatingReflux(m, MinimumReflux(d, p)) IN
         IF R + Scale = 0 THEN FALSE
         ELSE IF qq # Scale /\ FDiv(qq, qq - Scale) = FDiv(R, R + Scale) THEN FALSE
         ELSE FeedIntersectionX(f, d, qq, R) # w

(***************************************************************************)
(* binary_search_interpolate.  low, high and mid are the 0-based indices   *)
(* of the source; the tables are 1-based sequences.                        *)
(***************************************************************************)
BSearchStep(lo, hi, yt, ys) ==
    LET mid == (lo + hi) \div 2 IN
    IF ys[mid + 1] < yt THEN [low |-> mid + 1, high |-> hi, hit |-> FALSE, mid |-> mid]
    ELSE IF ys[mid + 1] > yt THEN [low |-> lo, high |-> mid - 1, hit |-> FALSE, mid |-> mid]
    ELSE [low |-> lo, high |-> hi, hit |-> TRUE, mid |-> mid]

\* Variant: the interpolation weight measured from the upper neighbour.
Interpolate_Mirrored(lo, yt, xs, ys) ==
    IF lo = 0 THEN xs[1]
    ELSE IF lo >= Len(ys) THEN xs[Len(xs)]
    ELSE LET x1 == xs[lo]
             y1 == ys[lo]
             x2 == xs[lo + 1]
             y2 == ys[lo + 1]
         IN x1 + FloorDiv((y2 - yt) * (x2 - x1), y2 - y1)

Interpolate(lo, yt, xs, ys) ==
    IF lo = 0 THEN xs[1]
    ELSE IF lo >= Len(ys) THEN xs[Len(xs)]
    ELSE LET x1 == xs[lo]
             y1 == ys[lo]
             x2 == xs[lo + 1]
             y2 == ys[lo + 1]
         IN x1 + FloorDiv((yt - y1) * (x2 - x1), y2 - y1)

RECURSIVE BSearchLoop(_, _, _, _, _)
BSearchLoop(lo, hi, yt, xs, ys) ==
    IF lo <= hi
    THEN LET s == BSearchStep(lo, hi, yt, ys) IN
         IF s.hit THEN xs[s.mid + 1]
         ELSE BSearchLoop(s.low, s.high, yt, xs, ys)
    ELSE Interpolate(lo, yt, xs, ys)

binary_search_interpolate(yt, xs, ys) == BSearchLoop(0, Len(ys) - 1, yt, xs, ys)

(***************************************************************************)
(* The script, statement group by statement group.                         *)
(***************************************************************************)
BSIdle ==
    /\ y_target = 0
    /\ low = 0
    /\ high = 0
    /\ bsteps = 0
    /\ result = 0

Init ==
    /\ xF \in XFSet
    /\ xD \in XDSet
    /\ xW \in XWSet
    /\ R_multiplier \in RMultiplierSet
    /\ q \in QSet
    /\ max_iterations \in MaxIterationsSet
    /\ xW < xF
    /\ xF < xD
    /\ LinesDefined(xF, xD, xW, R_multiplier, q)
    /\ x_eq = equilibrium_x
    /\ y_eq = equilibrium_y
    /\ pc = "lookup"
    /\ env = [cfg |-> "set"]
    /\ stages = <<>>
    /\ current_x = xD
    /\ iteration_count = 0
    /\ exit_by = "none"
    /\ warned = FALSE
    /\ summary = None
    /\ BSIdle

\* Lines 58-59: xiE, yiE = find_intersection(...); unpacking None raises
\* TypeError and the script stops.
MinimumRefluxLookup ==
    /\ pc = "lookup"
    /\ LET p == find_intersection(x_eq, y_eq, xF, xD) IN
       IF p = None
       THEN /\ pc' = "error"
            /\ env' = env
       ELSE /\ pc' = "lines"
            /\ env' = [cfg |-> "set", xiE |-> p[1], yiE |-> p[2],
                       R_min |-> MinimumReflux(xD, p)]
    /\ UNCHANGED <<config, stages, current_x, iteration_count, exit_by,
                   warned, summary, bsvars>>

\* Lines 62-84: R, rectifying line, xiF, yiF, stripping line.
OperatingLines ==
    /\ pc = "lines"
    /\ LET R == OperatingReflux(R_multiplier, env.R_min)
           xi == FeedIntersectionX(xF, xD, q, R)
           yi == FeedIntersectionY(xD, R, xi)
       IN env' = [cfg |-> "set", xiE |-> env.xiE, yiE |-> env.yiE,
                  R_min |-> env.R_min, R |-> R, xiF |-> xi, yiF |-> yi]
    /\ pc' = "loop"
    /\ UNCHANGED <<config, stages, current_x, iteration_count, exit_by,
                   warned, summary, bsvars>>

\* Lines 122-125: vapor composition from the active operating line.
OperatingLineY(cx) ==
    IF cx > env.xiF
    THEN FMul(RectifyingSlope(env.R), cx) + RectifyingIntercept(xD, env.R)
    ELSE FMul(StrippingSlope(xW, env.xiF, env.yiF), cx - xW) + xW

\* Variant: the cap compared with <=.
LoopCondition_CapOffByOne ==
    current_x > xW + tolerance /\ iteration_count <= max_iterations

\* Line 118.
LoopCondition == current_x > xW + tolerance /\ iteration_count < max_iterations

\* Line 137.
Converged(cx, nx) == Abs(cx - nx) < tolerance

\* Variant: only the equilibrium point is appended.
StagePoints_EquilibriumOnly(cx, cy, nx) == <<<<nx, cy>>>>

\* Lines 128 and 134: the two points one iteration appends.
StagePoints(cx, cy, nx) == <<<<cx, cy>>, <<nx, cy>>>>

\* Lines 118-139: one iteration of the while loop.
StageStep ==
    /\ pc = "loop"
    /\ LoopCondition
    /\ iteration_count' = iteration_count + 1
    /\ LET current_y == OperatingLineY(current_x)
           next_x == binary_search_interpolate(current_y, x_eq, y_eq)
       IN /\ stages' = stages \o StagePoints(current_x, current_y, next_x)
          /\ IF Converged(current_x, next_x)
             THEN /\ pc' = "warn"
                  /\ exit_by' = "break"
                  /\ current_x' = current_x
             ELSE /\ pc' = "loop"
                  /\ exit_by' = exit_by
                  /\ current_x' = next_x
    /\ UNCHANGED <<config, env, warned, summary, bsvars>>

\* Line 118: the loop condition is false.
LoopExit ==
    /\ pc = "loop"
    /\ ~LoopCondition
    /\ pc' = "warn"
    /\ exit_by' = "condition"
    /\ UNCHANGED <<config, env, stages, current_x, iteration_count,
                   warned, summary, bsvars>>

\* Lines 142-143.
WarningTest == iteration_count >= max_iterations

MaxIterationsWarning ==
    /\ pc = "warn"
    /\ warned' = WarningTest
    /\ pc' = "summary"
    /\ UNCHANGED <<config, env, stages, current_x, iteration_count, exit_by,
                   summary, bsvars>>

\* Lines 179-180.
NumberOfStages(st) == Len(st) \div 2

FeedStage(st, xi) == Cardinality({i \in 1 .. Len(st) : st[i][1] > xi})

PrintSummary ==
    /\ pc = "summary"
    /\ summary' = [R_min |-> env.R_min, R |-> env.R,
                   stages |-> NumberOfStages(stages),
                   feed_stage |-> FeedStage(stages, env.xiF)]
    /\ pc' = "done"
    /\ UNCHANGED <<config, env, stages, current_x, iteration_count, exit_by,
                   warned, bsvars>>

Next ==
    \/ MinimumRefluxLookup
    \/ OperatingLines
    \/ StageStep
    \/ LoopExit
    \/ MaxIterationsWarning
    \/ PrintSummary

Spec == Init /\ [][Next]_vars

(***************************************************************************)
(* binary_search_interpolate on its own, one loop iteration per step, over *)
(* every table of at most MaxLen points with values in 0 .. MaxVal whose   *)
(* y column is strictly ascending (the function's stated assumption).      *)
(***************************************************************************)
Ascending(s) == \A i \in 1 .. Len(s) - 1 : s[i] < s[i + 1]

NonDecreasing(s) == \A i \in 1 .. Len(s) - 1 : s[i] <= s[i + 1]

Tables(n) == [1 .. n -> 0 .. MaxVal]

InitBS ==
    /\ \E n \in 1 .. MaxLen :
          /\ x_eq \in Tables(n)
          /\ y_eq \in {t \in Tables(n) : Ascending(t)}
    /\ y_target \in 0 .. MaxVal + 1
    /\ low = 0
    /\ high = Len(y_eq) - 1
    /\ bsteps = 0
    /\ result = 0
    /\ pc = "bsearch"
    /\ xF = DefaultXF
    /\ xD = DefaultXD
    /\ xW = DefaultXW
    /\ R_multiplier = DefaultRMultiplier
    /\ q = DefaultQ
    /\ max_iterations = DefaultMaxIterations
    /\ env = [cfg |-> "set"]
    /\ stages = <<>>
    /\ current_x = xD
    /\ iteration_count = 0
    /\ exit_by = "none"
    /\ warned = FALSE
    /\ summary = None

pipeline == <<pc, env, stages, current_x, iteration_count, exit_by, warned, summary>>

\* Lines 93-100: one iteration of the while loop.
BSearchIterate ==
    /\ pc = "bsearch"
    /\ low <= high
    /\ LET s == BSearchStep(low, high, y_target, y_eq) IN
       /\ low' = s.low
       /\ high' = s.high
       /\ bsteps' = bsteps + 1
       /\ IF s.hit
          THEN /\ result' = x_eq[s.mid + 1]
               /\ pc' = "returned"
          ELSE /\ result' = result
               /\ pc' = "bsearch"
    /\ UNCHANGED <<config, y_target, env, stages, current_x, iteration_count,
                   exit_by, warned, summary>>

\* Lines 102-110: the loop ended without an exact match.
BSearchInterpolate ==
    /\ pc = "bsearch"
    /\ low > high
    /\ result' = Interpolate(low, y_target, x_eq, y_eq)
    /\ pc' = "returned"
    /\ UNCHANGED <<config, y_target, low, high, bsteps, env, stages, current_x,
                   iteration_count, exit_by, warned, summary>>

NextBS ==
    \/ BSearchIterate
    \/ BSearchInterpolate

SpecBS == InitBS /\ [][NextBS]_vars

FairSpecBS == SpecBS /\ WF_vars(NextBS)

(***************************************************************************)
(* Properties.                                                             *)
(***************************************************************************)
IsDefault ==
    /\ xF = DefaultXF
    /\ xD = DefaultXD
    /\ xW = DefaultXW
    /\ R_multiplier = DefaultRMultiplier
    /\ q = DefaultQ
    /\ max_iterations = DefaultMaxIterations
    /\ x_eq = equilibrium_x
    /\ y_eq = equilibrium_y

\* Reference inverse of the tabulated curve: a linear scan for the exact
\* match, the clamps, or the bracketing adjacent pair.
RefInverse(yt, xs, ys) ==
    LET n == Len(ys) IN
    IF \E i \in 1 .. n : ys[i] = yt
    THEN xs[CHOOSE i \in 1 .. n : ys[i] = yt]
    ELSE IF yt < ys[1] THEN xs[1]
    ELSE IF yt > ys[n] THEN xs[n]
    ELSE LET i == CHOOSE j \in 1 .. n - 1 : ys[j] < yt /\ yt < ys[j + 1]
         IN xs[i] + FloorDiv((yt - ys[i]) * (xs[i + 1] - xs[i]), ys[i + 1] - ys[i])

\* C1: with the default configuration the minimum-reflux lookup selects the
\* table point (0.4, 0.63), so R_min = 1.52 (+-0.01) and R = 1.5 x R_min,
\* about 2.28.
C1_DefaultMinimumReflux ==
    (IsDefault /\ pc \notin {"lookup", "bsearch", "returned"}) =>
        /\ "R_min" \in DOMAIN env
        /\ env.xiE = 4000
        /\ env.yiE = 6300
        /\ Abs(env.R_min - 15217) <= 100
        /\ ("R" \in DOMAIN env => Abs(env.R - 22826) <= 150)

\* C2: with the default configuration the run ends with a positive stage
\* count and a reported feed stage that does not exceed the reported number
\* of stages.
C2_DefaultFeedStageWithinStages ==
    (IsDefault /\ pc = "done") =>
        /\ summary.stages > 0
        /\ summary.feed_stage <= summary.stages

\* C3: in every iteration of the stepping loop the next_x found on the
\* equilibrium curve is at most the current_x the iteration started from
\* (the operating-line point and the equilibrium point of each recorded
\* pair), so current_x never increases.
C3_CurrentXNonIncreasing ==
    \A k \in 1 .. (Len(stages) \div 2) : stages[2 * k][1] <= stages[2 * k - 1][1]

\* C4: whenever the loop stops through the convergence test, the last
\* liquid composition is at the bottoms composition within the tolerance.
C4_ConvergedAtBottoms ==
    exit_by = "break" => current_x <= xW + tolerance

\* C5: the stepping loop runs at most max_iterations iterations and records
\* at most twice as many points; an iteration is only started while
\* current_x > xW + tolerance, the cap is not reached and no convergence
\* break has happened; the loop is left only when one of the three exits
\* applies; and every step taken inside the loop either leaves it or
\* counts one more iteration toward the cap, so the loop terminates.
C5_ExitApplies ==
    /\ iteration_count <= max_iterations
    /\ Len(stages) <= 2 * max_iterations
    /\ exit_by = "condition" =>
          (current_x <= xW + tolerance \/ iteration_count >= max_iterations)
    /\ exit_by = "break" =>
          /\ Len(stages) >= 2
          /\ Abs(stages[Len(stages) - 1][1] - stages[Len(stages)][1]) < tolerance

C5_IterationGuard ==
    iteration_count' # iteration_count =>
        /\ iteration_count' = iteration_count + 1
        /\ exit_by = "none"
        /\ current_x > xW + tolerance
        /\ iteration_count < max_iterations

C5_Progress ==
    pc = "loop" => (pc' = "warn" \/ iteration_count' = iteration_count + 1)

C5_LoopTerminates ==
    /\ []C5_ExitApplies
    /\ [][C5_IterationGuard /\ C5_Progress]_vars

C5_Witness ==
    /\ pc = "done"
    /\ max_iterations = DefaultMaxIterations
    /\ iteration_count = max_iterations
    /\ Len(stages) = 2 * max_iterations
    /\ exit_by = "condition"

\* C6: the max-iterations warning is reported exactly for the runs the cap
\* cut off (the loop condition failed on the cap while current_x was still
\* above xW + tolerance), never for a run ended by the convergence test or
\* by current_x <= xW + tolerance; the stages are kept and the summary is
\* produced either way.
C6_WarningIffCutOff ==
    pc \in {"summary", "done"} =>
        /\ warned <=> (exit_by = "condition" /\ current_x > xW + tolerance)
        /\ pc = "done" => summary.stages = Len(stages) \div 2

\* C7: when no tabulated point has y > xF the lookup fails and nothing is
\* produced after it (no R_min, R, operating lines, stage list or summary);
\* otherwise it returns the first point, in table order, with y > xF.
C7_LookupFailsExplicitly ==
    LET above == {i \in 1 .. Len(y_eq) : y_eq[i] > xF} IN
    pc \notin {"lookup", "bsearch", "returned"} =>
        /\ above = {} =>
              /\ pc = "error"
              /\ DOMAIN env = {"cfg"}
              /\ stages = <<>>
              /\ summary = None
        /\ above # {} =>
              /\ pc # "error"
              /\ \E i \in above :
                    /\ \A j \in above : i <= j
                    /\ env.xiE = x_eq[i]
                    /\ env.yiE = y_eq[i]

C7_Witness ==
    /\ pc = "error"
    /\ xF = 9600
    /\ \A i \in 1 .. Len(y_eq) : y_eq[i] <= xF

\* C8 (as stated): for every table with y_eq strictly ascending the result
\* equals the reference inverse and lies in [x_eq[0], x_eq[-1]].
C8_ResultWithinEndpoints ==
    pc = "returned" =>
        /\ result = RefInverse(y_target, x_eq, y_eq)
        /\ x_eq[1] <= result
        /\ result <= x_eq[Len(x_eq)]

\* C8 (amended): for every table with y_eq strictly ascending the binary
\* search ends within len(y_eq) iterations, the result equals the
\* reference inverse (exact match, clamps, interpolation on the bracketing
\* pair), and the result lies in [x_eq[0], x_eq[-1]] when x_eq is
\* non-decreasing as well.
C8_AgreesWithReference ==
    pc \in {"bsearch", "returned"} =>
        /\ bsteps <= Len(y_eq)
        /\ binary_search_interpolate(y_target, x_eq, y_eq) = RefInverse(y_target, x_eq, y_eq)
        /\ pc = "returned" =>
              /\ result = RefInverse(y_target, x_eq, y_eq)
              /\ NonDecreasing(x_eq) => (x_eq[1] <= result /\ result <= x_eq[Len(x_eq)])

C8_BinarySearch ==
    /\ []C8_AgreesWithReference
    /\ <>(pc = "returned")

C8_Witness ==
    /\ pc = "returned"
    /\ Len(y_eq) = 3
    /\ bsteps = 2
    /\ y_eq[1] < y_target
    /\ y_target < y_eq[2]
    /\ x_eq[1] < result
    /\ result < x_eq[2]

\* C9: the reported feed stage equals the number of iterations executed in
\* the rectifying phase (entered with current_x > xiF).
C9_FeedStageCountsRectifyingIterations ==
    pc = "done" =>
        summary.feed_stage =
            Cardinality({k \in 1 .. iteration_count : stages[2 * k - 1][1] > env.xiF})

\* C10: the stage list holds two points per executed iteration; each pair
\* shares its y, its first point lies on the active operating line
\* (rectifying if x > xiF, stripping otherwise), its second on the
\* equilibrium curve; the first pair starts at xD and the x of each
\* equilibrium point is the x of the next operating-line point; the
\* reported stage count is the iteration count; and recorded points are
\* never changed or removed.
C10_StageListShape ==
    /\ Len(stages) = 2 * iteration_count
    /\ Len(stages) > 0 => stages[1][1] = xD
    /\ \A k \in 1 .. iteration_count :
          LET op == stages[2 * k - 1]
              eq == stages[2 * k]
          IN /\ op[2] = eq[2]
             /\ op[2] = IF op[1] > env.xiF
                        THEN FMul(FDiv(env.R, env.R + Scale), op[1])
                                 + FDiv(xD, env.R + Scale)
                        ELSE FMul(FDiv(env.yiF - xW, env.xiF - xW), op[1] - xW) + xW
             /\ eq[1] = RefInverse(eq[2], x_eq, y_eq)
             /\ k < iteration_count => stages[2 * k + 1][1] = eq[1]
    /\ pc = "done" => summary.stages = iteration_count

C10_StagesOnlyGrow ==
    /\ Len(stages') >= Len(stages)
    /\ SubSeq(stages', 1, Len(stages)) = stages

C10_StageList ==
    /\ []C10_StageListShape
    /\ [][C10_StagesOnlyGrow]_vars

C10_Witness ==
    /\ pc = "done"
    /\ IsDefault
    /\ Len(stages) = 20
    /\ stages[11][1] > env.xiF
    /\ stages[13][1] <= env.xiF

====
